---- MODULE Spec2Model ----
(***************************************************************************)
(* The TCG dashboard (src/data_visualization/dashboard.py) as a state      *)
(* machine: one Streamlit process, one browser session.  Every rerun       *)
(* executes the script top to bottom: six memoized table loaders, the      *)
(* quarter filter, then the four tabs of KPIs and charts.                  *)
(***************************************************************************)
EXTENDS Integers, Sequences, FiniteSets, TLC

\* ---------------------------------------------------------------- bounds
MaxRows == 2        \* rows of a fetched projects table
MaxAge == 1         \* clock ticks a memoized snapshot is followed for
MaxFetches == 2     \* backend fetches counted per table
MaxMemberRows == 4  \* rows of a members table whose roles vary
MaxAttendanceRows == 3  \* rows of an attendance table whose cells vary
MaxDonatedRows == 3 \* rows of a projects table whose donated flags vary

\* ------------------------------------------------------------ data model
Tables == {"project", "member", "company", "gbm", "attendance", "assignment"}
Secondary == Tables \ {"project"}
EnvVars == {"SUPABASE_URL", "SUPABASE_KEY"}
Quarters == {1, 2}

\* pd.DataFrame(): no columns, no rows.
EmptyDF == [cols |-> {}, rows |-> <<>>]

\* DataFrame.empty: some axis has length 0.
IsEmpty(df) == df.cols = {} \/ Len(df.rows) = 0

\* pd.DataFrame(data.data) of a list of row dictionaries: no rows gives the
\* DataFrame without columns, else the columns are the keys of the rows.
DataFrame(cols, rows) ==
    IF Len(rows) = 0 THEN EmptyDF
    ELSE [cols |-> cols, rows |-> [i \in 1..Len(rows) |-> [c \in cols |-> rows[i][c]]]]

\* A missing cell (None) of a text column whose values are sequences of
\* characters: no text equals it, a text has one character per position.
Null == <<"None">>

SeqsUpTo(S, n) == UNION {[1..k -> S] : k \in 1..n}

WithId(rows) == [i \in 1..Len(rows) |-> [id |-> i] @@ rows[i]]

\* ------------------------------------------- what the backend can return
\* Table "project" (spec, data model): quarter_id, project_manager,
\* company_id, donated.  The backend decides which columns exist.
\* Here: 1..MaxRows rows of any quarters, the odd rows donated, and all the
\* columns or all but one of them.
ProjectCols == {"id", "quarter_id", "project_manager", "company_id", "donated"}
ProjectColSets == {ProjectCols} \cup {ProjectCols \ {c} : c \in ProjectCols \ {"id"}}
ProjectRows(quarters) ==
    [i \in 1..Len(quarters) |->
        [id |-> i, quarter_id |-> quarters[i], project_manager |-> "pm",
         company_id |-> 10, donated |-> (i % 2 = 1)]]
ProjectTables ==
    {EmptyDF} \cup
    {DataFrame(c, ProjectRows(q)) : c \in ProjectColSets, q \in SeqsUpTo(Quarters, MaxRows)}

MemberTables ==
    {EmptyDF,
     DataFrame({"id", "role", "status", "year"},
               WithId(<<[role |-> <<"A", "s", "s", "o", "c", "i", "a", "t", "e">>, status |-> TRUE, year |-> 1]>>))}

CompanyBase == WithId(<<[company_id |-> 10, name |-> "acme"]>>)
CompanyTables ==
    {EmptyDF} \cup
    {DataFrame(c, CompanyBase) :
        c \in {{"id", "company_id", "name"}, {"id", "company_id"}, {"id", "name"}}}

GbmTables ==
    {EmptyDF, DataFrame({"id", "quarter_id"}, WithId(<<[quarter_id |-> 1]>>))}

AttendanceBase ==
    WithId(<<[gbm_id |-> 1, status |-> TRUE], [gbm_id |-> 1, status |-> FALSE]>>)
AttendanceTables ==
    {EmptyDF} \cup
    {DataFrame(c, AttendanceBase) : c \in {{"id", "gbm_id", "status"}, {"id", "gbm_id"}}}

AssignmentBase == WithId(<<[project_id |-> 1], [project_id |-> 1]>>)
AssignmentTables ==
    {EmptyDF} \cup
    {DataFrame(c, AssignmentBase) : c \in {{"id", "project_id"}, {"id"}}}

Candidates(T) ==
    CASE T = "project" -> ProjectTables
      [] T = "member" -> MemberTables
      [] T = "company" -> CompanyTables
      [] T = "gbm" -> GbmTables
      [] T = "attendance" -> AttendanceTables
      [] T = "assignment" -> AssignmentTables

\* ------------------------------------------------------------------ state
VARIABLES
    env,               \* the environment variables that are set
    cache,             \* st.cache_data: table -> [df, msgs], defined once stored
    age,               \* table -> clock ticks since its snapshot was stored
    fetches,           \* table -> times this process went to the backend for it
    ops,               \* the requests this process has sent to the backend
    pc,                \* position of the running script, or how the run ended
    dfs,               \* table -> the DataFrame its loader returned in this run
    errors,            \* st.error messages shown in this run
    raisedNow,         \* tables whose client creation or fetch raised in this run
    fetchedNow,        \* tables for which this run went to the backend
    widget,            \* the session's multiselect value, once the user set it
    options,           \* options the quarter selector offers in this run
    selected_quarters,
    filtered_projects,
    metrics,           \* st.metric label -> value, as rendered in this run
    charts             \* chart title -> what was plotted in this run

vars == <<env, cache, age, fetches, ops, pc, dfs, errors, raisedNow, fetchedNow, widget, options, selected_quarters, filtered_projects,
          metrics, charts>>

runVars == <<dfs, errors, raisedNow, fetchedNow, options,
             selected_quarters, filtered_projects, metrics, charts>>

MissingCredsMsg == "Please set SUPABASE_URL and SUPABASE_KEY in your .env file"
ProjectErrorMsg == "Error loading project data"

Ended == {"done", "stopped", "raised"}

NoWidget == [set |-> FALSE, val |-> {}]

Init ==
    /\ env \in SUBSET EnvVars
    /\ cache = <<>>
    /\ age = <<>>
    /\ fetches = [T \in Tables |-> 0]
    /\ ops = {}
    /\ pc = "idle"
    /\ dfs = <<>>
    /\ errors = <<>>
    /\ raisedNow = {}
    /\ fetchedNow = {}
    /\ widget = NoWidget
    /\ options = {}
    /\ selected_quarters = {}
    /\ filtered_projects = EmptyDF
    /\ metrics = <<>>
    /\ charts = <<>>

\* f with key k bound to v (k added to the domain when new).
Put(f, k, v) == [x \in DOMAIN f \cup {k} |-> IF x = k THEN v ELSE f[x]]

\* ---------------------------------------------------------------- loaders
LoaderPc(T) ==
    CASE T = "project" -> "load_projects"
      [] T = "member" -> "load_members"
      [] T = "company" -> "load_companies"
      [] T = "gbm" -> "load_gbms"
      [] T = "attendance" -> "load_attendance"
      [] T = "assignment" -> "load_assignments"

\* Fault models of the cache: no memoization at all; a time-to-live of MaxAge;
\* a stored empty table taken for a miss, so that the fetch is tried again.
CacheHit_never(T) == FALSE
CacheHit_ttl(T) == T \in DOMAIN cache /\ age[T] < MaxAge
CacheHit_retry(T) == T \in DOMAIN cache /\ ~IsEmpty(cache[T].df)

\* @st.cache_data without ttl or max_entries: a stored result is served to
\* every later call, whatever its age.
CacheHit(T) == T \in DOMAIN cache

\* supabase.table(T).select("*").execute(): the one request a loader sends.
SelectAll(T) == [table |-> T, op |-> "select", columns |-> "*"]

\* if not SUPABASE_URL or not SUPABASE_KEY
CredsMissing == ~(EnvVars \subseteq env)

\* One call of a memoized loader of table T at its place in the script.
\* The try block (create_client, then select("*").execute(), then the
\* DataFrame) either returns a table or raises somewhere (ok = FALSE); each
\* entry of it counts as one fetch.
\*   stopOnMissing: st.error + st.stop() when a credential is missing
\*                  (load_projects), else return pd.DataFrame();
\*   showError:     the except branch calls st.error (load_projects).
\* A result that is returned is stored with the st.error elements the call
\* emitted, which a cache hit replays; st.stop() leaves the function by an
\* exception, so nothing is stored.
Loader(T, next, stopOnMissing, showError) ==
    /\ pc = LoaderPc(T)
    /\ IF CacheHit(T)
       THEN /\ dfs' = Put(dfs, T, cache[T].df)
            /\ errors' = errors \o cache[T].msgs
            /\ pc' = next
            /\ UNCHANGED <<cache, age, fetches, ops, raisedNow, fetchedNow>>
       ELSE IF CredsMissing /\ stopOnMissing
       THEN /\ errors' = Append(errors, MissingCredsMsg)
            /\ pc' = "stopped"
            /\ UNCHANGED <<cache, age, fetches, ops, dfs, raisedNow, fetchedNow>>
       ELSE IF CredsMissing
       THEN /\ cache' = Put(cache, T, [df |-> EmptyDF, msgs |-> <<>>])
            /\ age' = Put(age, T, 0)
            /\ dfs' = Put(dfs, T, EmptyDF)
            /\ pc' = next
            /\ UNCHANGED <<fetches, ops, errors, raisedNow, fetchedNow>>
       ELSE \E ok \in BOOLEAN, t \in Candidates(T) :
              LET df == IF ok THEN t ELSE EmptyDF
                  msgs == IF ~ok /\ showError THEN <<ProjectErrorMsg>> ELSE <<>>
              IN /\ fetches[T] < MaxFetches
                 /\ cache' = Put(cache, T, [df |-> df, msgs |-> msgs])
                 /\ age' = Put(age, T, 0)
                 /\ fetches' = [fetches EXCEPT ![T] = @ + 1]
                 /\ ops' = ops \cup {SelectAll(T)}
                 /\ fetchedNow' = fetchedNow \cup {T}
                 /\ raisedNow' = IF ok THEN raisedNow ELSE raisedNow \cup {T}
                 /\ dfs' = Put(dfs, T, df)
                 /\ errors' = errors \o msgs
                 /\ pc' = next
    /\ UNCHANGED <<env, widget, options, selected_quarters, filtered_projects,
                   metrics, charts>>

\* Fault models of the loaders: load_projects swallowing a fetch error like
\* the secondary loaders do, load_projects without st.stop(), load_members
\* reporting its error like load_projects does.
load_projects_silent == Loader("project", "load_members", TRUE, FALSE)
load_projects_nostop == Loader("project", "load_members", FALSE, TRUE)
load_members_shows == Loader("member", "load_companies", FALSE, TRUE)

load_projects == Loader("project", "load_members", TRUE, TRUE)
load_members == Loader("member", "load_companies", FALSE, FALSE)
load_companies == Loader("company", "load_gbms", FALSE, FALSE)
load_gbms == Loader("gbm", "load_attendance", FALSE, FALSE)
load_attendance == Loader("attendance", "load_assignments", FALSE, FALSE)
load_assignments == Loader("assignment", "filter", FALSE, FALSE)

\* ------------------------------------------------------------------ reruns
\* load_dotenv() does not override: variables are added, never removed.
LoadDotenv(e) == {e2 \in SUBSET EnvVars : e \subseteq e2}

StartRun ==
    /\ env' \in LoadDotenv(env)
    /\ pc' = "load_projects"
    /\ dfs' = <<>>
    /\ errors' = <<>>
    /\ raisedNow' = {}
    /\ fetchedNow' = {}
    /\ options' = {}
    /\ selected_quarters' = {}
    /\ filtered_projects' = EmptyDF
    /\ metrics' = <<>>
    /\ charts' = <<>>
    /\ UNCHANGED <<cache, age, fetches, ops>>

\* The page is opened or rerun without touching the selector.
Rerun ==
    /\ pc \in Ended \cup {"idle"}
    /\ StartRun
    /\ UNCHANGED widget

\* The user changes the quarter selection to S, which reruns the script.
ChangeFilter(S) ==
    /\ pc \in Ended
    /\ S \subseteq options
    /\ S # selected_quarters
    /\ widget' = [set |-> TRUE, val |-> S]
    /\ StartRun

\* Time passes between two runs.
Tick ==
    /\ pc \in Ended
    /\ DOMAIN age # {}
    /\ \A T \in DOMAIN age : age[T] < MaxAge
    /\ age' = [T \in DOMAIN age |-> age[T] + 1]
    /\ UNCHANGED <<env, cache, fetches, ops, pc, widget>>
    /\ UNCHANGED runVars

\* ------------------------------------------------------------ quarter filter
HasQuarter(df) == ~IsEmpty(df) /\ "quarter_id" \in df.cols

\* Fault model: a selector that offers every known quarter whatever the table.
QuarterOptions_known(projects_df) ==
    IF IsEmpty(projects_df) THEN {} ELSE Quarters

\* sorted(projects_df['quarter_id'].unique())
QuarterOptions(projects_df) ==
    IF HasQuarter(projects_df)
    THEN {projects_df.rows[i].quarter_id : i \in 1..Len(projects_df.rows)}
    ELSE {}

\* st.multiselect(options, default=options): the default until the user has
\* set the widget; without the column no selector is shown.
SelectedQuarters(projects_df, w) ==
    IF HasQuarter(projects_df)
    THEN IF w.set THEN w.val \cap QuarterOptions(projects_df) ELSE QuarterOptions(projects_df)
    ELSE {}

\* Fault models of the filter: isin applied to an empty selection too; no
\* filtering at all.
FilteredProjects_isin(projects_df, sel) ==
    IF HasQuarter(projects_df)
    THEN LET isin(r) == r.quarter_id \in sel
         IN [cols |-> projects_df.cols, rows |-> SelectSeq(projects_df.rows, isin)]
    ELSE projects_df
FilteredProjects_all(projects_df, sel) == projects_df

\* projects_df[projects_df['quarter_id'].isin(selected_quarters)]
\*     if selected_quarters else projects_df
\* Boolean indexing keeps the columns and the order of the rows it keeps.
FilteredProjects(projects_df, sel) ==
    IF HasQuarter(projects_df)
    THEN IF sel # {}
         THEN LET isin(r) == r.quarter_id \in sel
              IN [cols |-> projects_df.cols, rows |-> SelectSeq(projects_df.rows, isin)]
         ELSE projects_df
    ELSE projects_df

\* Fault model: the filtered table assigned to projects_df itself.
Filter_inplace ==
    /\ pc = "filter"
    /\ options' = QuarterOptions(dfs["project"])
    /\ selected_quarters' = SelectedQuarters(dfs["project"], widget)
    /\ filtered_projects' =
           FilteredProjects(dfs["project"], SelectedQuarters(dfs["project"], widget))
    /\ dfs' = Put(dfs, "project",
                  FilteredProjects(dfs["project"], SelectedQuarters(dfs["project"], widget)))
    /\ pc' = "tab1"
    /\ UNCHANGED <<env, cache, age, fetches, ops, errors, raisedNow, fetchedNow, widget, metrics, charts>>

\* Lines 385-418: header, quarter selector, filtered_projects.
Filter ==
    /\ pc = "filter"
    /\ options' = QuarterOptions(dfs["project"])
    /\ selected_quarters' = SelectedQuarters(dfs["project"], widget)
    /\ filtered_projects' =
           FilteredProjects(dfs["project"], SelectedQuarters(dfs["project"], widget))
    /\ pc' = "tab1"
    /\ UNCHANGED <<env, cache, age, fetches, ops, dfs, errors, raisedNow, fetchedNow, widget, metrics, charts>>

\* ------------------------------------------------------------ aggregation
\* What st.metric shows: "N/A", "-", an integer, or a number formatted with
\* one decimal (val in tenths), with or without a percent sign.
NA == [fmt |-> "N/A", val |-> 0]
Dash == [fmt |-> "-", val |-> 0]
Count(n) == [fmt |-> "d", val |-> n]
OneDecimal(tenths) == [fmt |-> ".1f", val |-> tenths]
Percent(tenths) == [fmt |-> ".1f%", val |-> tenths]

\* f"{num/den:.1f}" in tenths: the nearest tenth, a tie going to the even one.
Round1(num, den) ==
    LET q == (10 * num) \div den
        r == (10 * num) % den
    IN IF 2 * r < den THEN q
       ELSE IF 2 * r > den THEN q + 1
       ELSE IF q % 2 = 0 THEN q ELSE q + 1

Values(df, c) == {df.rows[i][c] : i \in 1..Len(df.rows)}
CountWhere(df, c, v) == Cardinality({i \in 1..Len(df.rows) : df.rows[i][c] = v})

\* df[c].value_counts() and df.groupby(c).size(): value -> number of rows.
\* (.head(10) keeps all of it: fewer than ten values exist within the bounds.)
\* Missing cells are not counted (dropna); role is the column that has them.
ValueCounts(df, c) ==
    [v \in (IF c = "role" THEN Values(df, c) \ {Null} ELSE Values(df, c)) |->
        CountWhere(df, c, v)]

Chart(data) == [placeholder |-> FALSE, data |-> data]
placeholder_viz == [placeholder |-> TRUE, data |-> <<>>]

\* --- tab1, Projects
ActiveProjects(fp) == Count(IF ~IsEmpty(fp) THEN Len(fp.rows) ELSE 0)

\* assignments_df.groupby('project_id') with no check of the column.
TeamSizeKeyError(fp, asg) ==
    /\ ~IsEmpty(fp) /\ "project_manager" \in fp.cols
    /\ ~IsEmpty(asg)
    /\ "project_id" \notin asg.cols

AvgTeamSize(fp, asg) ==
    IF ~IsEmpty(fp) /\ "project_manager" \in fp.cols
    THEN IF ~IsEmpty(asg)
         THEN OneDecimal(Round1(Len(asg.rows), Cardinality(Values(asg, "project_id"))))
         ELSE OneDecimal(0)
    ELSE NA

\* Fault model: the ratio without the check of filtered_projects.
ProjectsPerCompany_noguard(fp, comp) ==
    IF ~IsEmpty(comp)
    THEN OneDecimal(Round1(Len(fp.rows), Len(comp.rows)))
    ELSE NA

ProjectsPerCompany(fp, comp) ==
    IF ~IsEmpty(comp) /\ ~IsEmpty(fp)
    THEN OneDecimal(Round1(Len(fp.rows), Len(comp.rows)))
    ELSE NA

\* Fault model: the percentage cut off after its first decimal.
DonatedPct_truncated(fp) ==
    IF ~IsEmpty(fp) /\ "donated" \in fp.cols
    THEN Percent((1000 * CountWhere(fp, "donated", TRUE)) \div Len(fp.rows))
    ELSE NA

DonatedPct(fp) ==
    IF ~IsEmpty(fp) /\ "donated" \in fp.cols
    THEN Percent(Round1(100 * CountWhere(fp, "donated", TRUE), Len(fp.rows)))
    ELSE NA

ColumnChart(df, c) ==
    IF ~IsEmpty(df) /\ c \in df.cols THEN Chart(ValueCounts(df, c)) ELSE placeholder_viz

Tab1 ==
    /\ pc = "tab1"
    /\ LET fp == filtered_projects
           m1 == Put(metrics, "Active Projects", ActiveProjects(fp))
       IN IF TeamSizeKeyError(fp, dfs["assignment"])
          THEN /\ metrics' = m1
               /\ pc' = "raised"
               /\ UNCHANGED charts
          ELSE /\ metrics' =
                      Put(Put(Put(m1,
                          "Avg Team Size", AvgTeamSize(fp, dfs["assignment"])),
                          "Projects per Company", ProjectsPerCompany(fp, dfs["company"])),
                          "Donated Projects", DonatedPct(fp))
               /\ charts' =
                      Put(Put(charts,
                          "Projects per Quarter", ColumnChart(fp, "quarter_id")),
                          "Top 10 Project Managers", ColumnChart(fp, "project_manager"))
               /\ pc' = "tab2"
    /\ UNCHANGED <<env, cache, age, fetches, ops, dfs, errors, raisedNow, fetchedNow, widget, options, selected_quarters, filtered_projects>>

\* --- tab2, Members
\* Strings that are searched are sequences of characters.
Lower(ch) ==
    CASE ch = "A" -> "a"
      [] ch = "P" -> "p"
      [] OTHER -> ch

\* Fault model: the search with case=True.
ContainsCI_cased(s, pat) ==
    /\ s # Null
    /\ \E i \in 0..(Len(s) - Len(pat)) :
           \A j \in 1..Len(pat) : s[i + j] = pat[j]

\* Series.str.contains(pat, case=False, na=False) for a literal pattern: a
\* missing cell does not match.
ContainsCI(s, pat) ==
    /\ s # Null
    /\ \E i \in 0..(Len(s) - Len(pat)) :
           \A j \in 1..Len(pat) : Lower(s[i + j]) = Lower(pat[j])

Associate == <<"A", "s", "s", "o", "c", "i", "a", "t", "e">>
Analyst == <<"A", "n", "a", "l", "y", "s", "t">>

CountRoles(df, pat) ==
    Cardinality({i \in 1..Len(df.rows) : ContainsCI(df.rows[i].role, pat)})

TotalOf(df) == IF ~IsEmpty(df) THEN Count(Len(df.rows)) ELSE NA

AssociatesAnalysts(mem) ==
    IF ~IsEmpty(mem) /\ "role" \in mem.cols
    THEN Count(CountRoles(mem, Associate) + CountRoles(mem, Analyst))
    ELSE NA

ActiveMembers(mem) ==
    IF ~IsEmpty(mem) /\ "status" \in mem.cols
    THEN Count(CountWhere(mem, "status", TRUE))
    ELSE NA

Tab2 ==
    /\ pc = "tab2"
    /\ LET mem == dfs["member"]
       IN /\ metrics' =
                 Put(Put(Put(Put(metrics,
                     "Total Members", TotalOf(mem)),
                     "Associates & Analysts", AssociatesAnalysts(mem)),
                     "Active Members", ActiveMembers(mem)),
                     "Active Associates", Dash)
          /\ charts' =
                 Put(Put(charts,
                     "Members by Role", ColumnChart(mem, "role")),
                     "Members by Year", ColumnChart(mem, "year"))
    /\ pc' = "tab3"
    /\ UNCHANGED <<env, cache, age, fetches, ops, dfs, errors, raisedNow, fetchedNow, widget, options, selected_quarters, filtered_projects>>

\* --- tab3, Companies
\* companies_df[['company_id', 'name']] with no check of the columns.
CompaniesKeyError(fp, comp) ==
    /\ ~IsEmpty(fp) /\ "company_id" \in fp.cols
    /\ ~IsEmpty(comp)
    /\ ~({"company_id", "name"} \subseteq comp.cols)

\* The bar label of a company: its name after the left merge, "Company <id>"
\* when no company row matches, str(company_id) when companies_df is empty.
CompanyLabel(comp, cid) ==
    IF IsEmpty(comp) THEN [kind |-> "str(company_id)", name |-> ""]
    ELSE IF \E i \in 1..Len(comp.rows) : comp.rows[i].company_id = cid
    THEN [kind |-> "name",
          name |-> comp.rows[CHOOSE i \in 1..Len(comp.rows) :
                                 comp.rows[i].company_id = cid].name]
    ELSE [kind |-> "Company {company_id}", name |-> ""]

TopCompanies(fp, comp) ==
    IF ~IsEmpty(fp) /\ "company_id" \in fp.cols
    THEN Chart([cid \in Values(fp, "company_id") |->
                   [count |-> CountWhere(fp, "company_id", cid),
                    label |-> CompanyLabel(comp, cid)]])
    ELSE placeholder_viz

Tab3 ==
    /\ pc = "tab3"
    /\ LET fp == filtered_projects
           comp == dfs["company"]
       IN /\ metrics' =
                 Put(Put(Put(Put(metrics,
                     "Total Companies", TotalOf(comp)),
                     "Avg Projects/Company", ProjectsPerCompany(fp, comp)),
                     "Donated %", DonatedPct(fp)),
                     "Project Donated %", Dash)
          /\ IF CompaniesKeyError(fp, comp)
             THEN /\ pc' = "raised"
                  /\ UNCHANGED charts
             ELSE /\ charts' =
                         Put(Put(charts,
                             "Top 10 Companies by Project Count", TopCompanies(fp, comp)),
                             "Company Engagement Trends", placeholder_viz)
                  /\ pc' = "tab4"
    /\ UNCHANGED <<env, cache, age, fetches, ops, dfs, errors, raisedNow, fetchedNow, widget, options, selected_quarters, filtered_projects>>

\* --- tab4, GBMs
GbmAttendance(att, mem) ==
    IF ~IsEmpty(att) /\ ~IsEmpty(mem)
    THEN LET attended == IF "status" \in att.cols THEN CountWhere(att, "status", TRUE) ELSE 0
         IN Percent(Round1(100 * attended, Len(att.rows)))
    ELSE NA

\* attendance_df.groupby('gbm_id')['status'].sum(): gbm_id -> rows attended.
AttendedPerGbm(att) ==
    [g \in Values(att, "gbm_id") |->
        Cardinality({i \in 1..Len(att.rows) :
                        att.rows[i].gbm_id = g /\ att.rows[i].status = TRUE})]

\* Series.sum() of a Series indexed by the groups.
RECURSIVE SumOf(_)
SumOf(f) ==
    IF DOMAIN f = {} THEN 0
    ELSE LET x == CHOOSE y \in DOMAIN f : TRUE
         IN f[x] + SumOf([y \in DOMAIN f \ {x} |-> f[y]])

\* Fault model: the groups' sizes (.size()) averaged instead of their sums.
AvgAttendancePerGbm_size(att, mem) ==
    IF ~IsEmpty(att) /\ ~IsEmpty(mem)
    THEN IF "gbm_id" \in att.cols /\ "status" \in att.cols
         THEN OneDecimal(Round1(Len(att.rows), Cardinality(Values(att, "gbm_id"))))
         ELSE NA
    ELSE NA

\* gbm_attendance.mean(), one decimal; a non-empty table has a group, so the
\* "else 0" of line 802 is never taken.
AvgAttendancePerGbm(att, mem) ==
    IF ~IsEmpty(att) /\ ~IsEmpty(mem)
    THEN IF "gbm_id" \in att.cols /\ "status" \in att.cols
         THEN LET gbm_attendance == AttendedPerGbm(att)
              IN OneDecimal(Round1(SumOf(gbm_attendance),
                                   Cardinality(DOMAIN gbm_attendance)))
         ELSE NA
    ELSE NA

AttendanceTrend(att) ==
    IF ~IsEmpty(att) /\ "gbm_id" \in att.cols /\ "status" \in att.cols
    THEN Chart(AttendedPerGbm(att))
    ELSE placeholder_viz

Tab4 ==
    /\ pc = "tab4"
    /\ LET att == dfs["attendance"]
           mem == dfs["member"]
       IN /\ metrics' =
                 Put(Put(Put(Put(metrics,
                     "Total GBMs", TotalOf(dfs["gbm"])),
                     "GBM Attendance", GbmAttendance(att, mem)),
                     "Avg Attendance/GBM", AvgAttendancePerGbm(att, mem)),
                     "Attendance Prediction", Dash)
          /\ charts' =
                 Put(Put(charts,
                     "GBMs per Quarter", ColumnChart(dfs["gbm"], "quarter_id")),
                     "Attendance Trend by GBM", AttendanceTrend(att))
    /\ pc' = "done"
    /\ UNCHANGED <<env, cache, age, fetches, ops, dfs, errors, raisedNow, fetchedNow, widget, options, selected_quarters, filtered_projects>>

\* ---------------------------------------------------------- specification
Next ==
    \/ Rerun
    \/ \E S \in SUBSET Quarters : ChangeFilter(S)
    \/ Tick
    \/ load_projects
    \/ load_members
    \/ load_companies
    \/ load_gbms
    \/ load_attendance
    \/ load_assignments
    \/ Filter
    \/ Tab1
    \/ Tab2
    \/ Tab3
    \/ Tab4

Spec == Init /\ [][Next]_vars

\* ------------------------------------------------- one render, richer tables
\* The KPIs are functions of the loaded tables.  KpiSpec follows the part of
\* a run after its six loader calls, in a process whose cache was filled
\* earlier, for tables in which one kind of cell varies freely: the roles of
\* the members, the cells of the attendance rows, or the quarters and
\* donated flags of the projects.
Partner == <<"P", "a", "r", "t", "n", "e", "r">>
associate == <<"a", "s", "s", "o", "c", "i", "a", "t", "e">>
AssociateAnalyst == Associate \o <<" ">> \o Analyst
Roles == {Associate, associate, Analyst, Partner, AssociateAnalyst, Null}
GbmIds == {1, 2, 3}

RoleTables ==
    {DataFrame({"id", "role", "status", "year"},
               WithId([i \in 1..Len(r) |-> [role |-> r[i], status |-> TRUE, year |-> 1]])) :
        r \in SeqsUpTo(Roles, MaxMemberRows)}

AttendanceCells == [gbm_id : GbmIds, status : BOOLEAN]
AttendanceRowTables ==
    {DataFrame({"id", "gbm_id", "status"}, WithId(r)) :
        r \in SeqsUpTo(AttendanceCells, MaxAttendanceRows)}

DonatedCells == [quarter_id : Quarters, donated : BOOLEAN]
DonatedTables ==
    {DataFrame(ProjectCols,
               WithId([i \in 1..Len(r) |->
                   [project_manager |-> "pm", company_id |-> 10] @@ r[i]])) :
        r \in SeqsUpTo(DonatedCells, MaxDonatedRows)}

BaseTables ==
    [T \in Tables |->
        CASE T = "project" -> DataFrame(ProjectCols, ProjectRows(<<1, 2>>))
          [] T = "member" -> CHOOSE t \in MemberTables : ~IsEmpty(t)
          [] T = "company" -> DataFrame({"id", "company_id", "name"}, CompanyBase)
          [] T = "gbm" -> CHOOSE t \in GbmTables : ~IsEmpty(t)
          [] T = "attendance" -> DataFrame({"id", "gbm_id", "status"}, AttendanceBase)
          [] T = "assignment" -> DataFrame({"id", "project_id"}, AssignmentBase)]

KpiInputs ==
    {[BaseTables EXCEPT !["member"] = m] : m \in RoleTables}
    \cup {[BaseTables EXCEPT !["attendance"] = a, !["member"] = m] :
             a \in AttendanceRowTables, m \in MemberTables}
    \cup {[BaseTables EXCEPT !["project"] = p] : p \in DonatedTables}

\* Lines 378-383 have returned, every table from the cache; the selector is
\* untouched or was set in an earlier run to some of the quarters it offers.
KpiInit ==
    /\ env = EnvVars
    /\ dfs \in KpiInputs
    /\ cache = [T \in Tables |-> [df |-> dfs[T], msgs |-> <<>>]]
    /\ age = [T \in Tables |-> 0]
    /\ fetches = [T \in Tables |-> 1]
    /\ ops = {SelectAll(T) : T \in Tables}
    /\ pc = "filter"
    /\ errors = <<>>
    /\ raisedNow = {}
    /\ fetchedNow = {}
    /\ widget \in {NoWidget} \cup
                  {[set |-> TRUE, val |-> S] : S \in SUBSET QuarterOptions(dfs["project"])}
    /\ options = {}
    /\ selected_quarters = {}
    /\ filtered_projects = EmptyDF
    /\ metrics = <<>>
    /\ charts = <<>>

KpiNext ==
    \/ Filter
    \/ Tab1
    \/ Tab2
    \/ Tab3
    \/ Tab4

KpiSpec == KpiInit /\ [][KpiNext]_vars

\* ------------------------------------------------------------- properties
Range(f) == {f[x] : x \in DOMAIN f}
AfterFilter == {"tab1", "tab2", "tab3", "tab4", "done", "raised"}
AfterTab1 == {"tab2", "tab3", "tab4", "done"}
ProjectsKpis == {"Active Projects", "Avg Team Size", "Projects per Company", "Donated Projects"}

\* C1 as the specification states it: when the fetch of the projects table
\* fails, the loader shows an error and halts the run; no secondary loader is
\* invoked and no filter, KPI or chart is rendered afterwards in that run.
C1_FetchErrorHalts ==
    "project" \in raisedNow =>
        /\ ProjectErrorMsg \in Range(errors)
        /\ pc = "stopped"
        /\ DOMAIN dfs \subseteq {"project"}
        /\ DOMAIN metrics = {}
        /\ DOMAIN charts = {}

\* C1 (amended): when the fetch of the projects table fails, the loader shows
\* the error and returns an empty table; the run is not halted: it goes on to
\* the secondary loaders, the filter (no options, empty filtered table) and
\* the four tabs, and it ends normally.
C1_FetchErrorShownRunContinues ==
    "project" \in raisedNow =>
        /\ errors = <<ProjectErrorMsg>>
        /\ dfs["project"] = EmptyDF
        /\ pc \notin {"load_projects", "stopped", "raised"}
        /\ pc \in AfterFilter => filtered_projects = EmptyDF /\ options = {}
        /\ pc = "done" =>
              /\ DOMAIN dfs = Tables
              /\ ProjectsKpis \subseteq DOMAIN metrics
              /\ "Attendance Trend by GBM" \in DOMAIN charts

C1_Witness ==
    /\ "project" \in raisedNow
    /\ pc = "done"
    /\ fetchedNow = Tables
    /\ metrics["Active Projects"] = Count(0)

\* C2: when SUPABASE_URL or SUPABASE_KEY is missing, load_projects (the first
\* loader) shows the error and stops the run before going to the backend:
\* nothing is fetched, then or before, and no loader result, filter, KPI or
\* chart exists in that run.
C2_MissingCredsHalt ==
    CredsMissing =>
        /\ pc \in {"idle", "load_projects", "stopped"}
        /\ pc = "stopped" => errors = <<MissingCredsMsg>>
        /\ pc # "stopped" => errors = <<>>
        /\ fetchedNow = {}
        /\ \A T \in Tables : fetches[T] = 0
        /\ DOMAIN cache = {}
        /\ DOMAIN dfs = {}
        /\ options = {}
        /\ DOMAIN metrics = {}
        /\ DOMAIN charts = {}

C2_Witness ==
    /\ CredsMissing
    /\ pc = "stopped"
    /\ errors = <<MissingCredsMsg>>

\* C3: in each of the five secondary loaders an error raised by the client
\* creation or the fetch is caught: the loader returns the empty table, no
\* error is shown, and the run goes on to the next step of the script.
C3_SecondaryErrorsSwallowed ==
    [][\A T \in Secondary :
          (T \in raisedNow' /\ T \notin raisedNow) =>
              /\ pc = LoaderPc(T)
              /\ pc' = CASE T = "member" -> "load_companies"
                         [] T = "company" -> "load_gbms"
                         [] T = "gbm" -> "load_attendance"
                         [] T = "attendance" -> "load_assignments"
                         [] T = "assignment" -> "filter"
              /\ dfs' = Put(dfs, T, EmptyDF)
              /\ errors' = errors
              /\ cache'[T] = [df |-> EmptyDF, msgs |-> <<>>]]_vars

C3_Witness ==
    /\ Secondary \subseteq raisedNow
    /\ "project" \notin raisedNow
    /\ pc = "done"
    /\ errors = <<>>
    /\ \A T \in Secondary : dfs[T] = EmptyDF

\* C4: for every table, once a call of its loader has returned, every later
\* call returns that same content and does not go to the backend: at most one
\* fetch per table in the life of the cache.
C4_MemoizedOnce ==
    [][\A T \in Tables :
          /\ fetches'[T] <= 1
          /\ T \in DOMAIN cache =>
                /\ T \in DOMAIN cache' /\ cache'[T] = cache[T]
                /\ fetches'[T] = fetches[T]
                /\ T \in DOMAIN dfs' => dfs'[T] = cache[T].df]_vars

C4_Witness ==
    /\ pc = "done"
    /\ fetchedNow = {}
    /\ \A T \in Tables : fetches[T] = 1 /\ ~IsEmpty(dfs[T]) /\ dfs[T] = cache[T].df

\* C5 as the specification states it: a snapshot expires with time; once the
\* cache period (MaxAge ticks) has elapsed, the next call of the loader
\* discards it and fetches the table again.
C5_ExpiresWithTime ==
    [][\A T \in Tables :
          (pc = LoaderPc(T) /\ T \in DOMAIN cache /\ age[T] >= MaxAge) =>
              fetches'[T] = fetches[T] + 1]_vars

\* C5 (amended): a snapshot has no time-based expiry; however long it has
\* been stored, the next call of the loader returns it and fetches nothing.
C5_NoTimeExpiry ==
    [][\A T \in Tables :
          (pc = LoaderPc(T) /\ T \in DOMAIN cache /\ age[T] >= MaxAge) =>
              /\ fetches' = fetches
              /\ cache' = cache
              /\ age' = age
              /\ dfs' = Put(dfs, T, cache[T].df)]_vars

C5_Witness ==
    /\ pc = "done"
    /\ fetchedNow = {}
    /\ \A T \in Tables : age[T] = MaxAge /\ ~IsEmpty(dfs[T])

\* C6: select-all by default: when no quarter is selected, or the projects
\* table has no quarter_id column, the filtered table is the projects table
\* itself (same rows, same order), so never empty unless that table is.
C6_EmptySelectionIsNoFilter ==
    (pc \in AfterFilter /\
     (selected_quarters = {} \/ "quarter_id" \notin dfs["project"].cols)) =>
        /\ filtered_projects = dfs["project"]
        /\ ~IsEmpty(dfs["project"]) => ~IsEmpty(filtered_projects)

C6_Witness ==
    /\ pc = "done"
    /\ widget = [set |-> TRUE, val |-> {}]
    /\ selected_quarters = {}
    /\ options = Quarters
    /\ Len(filtered_projects.rows) = MaxRows

\* The rows of the loaded projects table whose quarter_id is in S.
ProjectsIn(S) ==
    LET inS(r) == r.quarter_id \in S
    IN [cols |-> dfs["project"].cols, rows |-> SelectSeq(dfs["project"].rows, inS)]

\* What a KPI or chart of the Projects and Companies tabs shows when it is
\* computed from the projects rows sub.
ProjectsKpi(l, sub) ==
    CASE l = "Active Projects" -> ActiveProjects(sub)
      [] l = "Avg Team Size" -> AvgTeamSize(sub, dfs["assignment"])
      [] l \in {"Projects per Company", "Avg Projects/Company"} ->
             ProjectsPerCompany(sub, dfs["company"])
      [] l \in {"Donated Projects", "Donated %"} -> DonatedPct(sub)
ProjectsChart(l, sub) ==
    CASE l = "Projects per Quarter" -> ColumnChart(sub, "quarter_id")
      [] l = "Top 10 Project Managers" -> ColumnChart(sub, "project_manager")
      [] l = "Top 10 Companies by Project Count" -> TopCompanies(sub, dfs["company"])
ProjectsKpiLabels ==
    ProjectsKpis \cup {"Avg Projects/Company", "Donated %"}
ProjectsChartLabels ==
    {"Projects per Quarter", "Top 10 Project Managers", "Top 10 Companies by Project Count"}

\* C7: for a non-empty selection S, every KPI and chart of the Projects and
\* Companies tabs that reads the projects table is computed from exactly the
\* rows whose quarter_id is in S; the selector offers the distinct quarter_id
\* values of the table and selects all of them by default, which filters
\* nothing out.
C7_FilterFeedsProjectsKpis ==
    (pc \in AfterFilter /\ HasQuarter(dfs["project"])) =>
        LET sub == ProjectsIn(selected_quarters)
        IN /\ options = {dfs["project"].rows[i].quarter_id :
                            i \in 1..Len(dfs["project"].rows)}
           /\ ~widget.set =>
                 selected_quarters = options /\ filtered_projects = dfs["project"]
           /\ selected_quarters # {} =>
                 /\ selected_quarters \subseteq options
                 /\ filtered_projects = sub
                 /\ \A l \in DOMAIN metrics \cap ProjectsKpiLabels :
                        metrics[l] = ProjectsKpi(l, sub)
                 /\ \A l \in DOMAIN charts \cap ProjectsChartLabels :
                        charts[l] = ProjectsChart(l, sub)

C7_Witness ==
    /\ pc = "done"
    /\ options = Quarters
    /\ selected_quarters = {2}
    /\ Len(dfs["project"].rows) = MaxRows
    /\ Len(filtered_projects.rows) = 1
    /\ filtered_projects.rows[1].id = MaxRows
    /\ metrics["Active Projects"] = Count(1)
    /\ metrics["Donated %"] \in {Percent(0), Percent(1000)}

\* C8: for a non-empty projects table without a quarter_id column the
\* filtered table is that table unchanged, and the quarter selector offers
\* no option: nothing is selected.
C8_NoQuarterColumn ==
    (pc \in AfterFilter /\ ~IsEmpty(dfs["project"])
        /\ "quarter_id" \notin dfs["project"].cols) =>
        /\ filtered_projects = dfs["project"]
        /\ options = {}
        /\ selected_quarters = {}

C8_Witness ==
    /\ pc = "done"
    /\ Len(dfs["project"].rows) = MaxRows
    /\ "quarter_id" \notin dfs["project"].cols
    /\ metrics["Active Projects"] = Count(MaxRows)

\* C9 as the specification states it: with an empty projects table every KPI
\* of the Projects section shows "N/A" and none raises.
C9_AllProjectsKpisNA ==
    (pc \in AfterTab1 \cup {"raised"} /\ IsEmpty(dfs["project"])) =>
        /\ pc # "raised"
        /\ \A l \in ProjectsKpis : l \in DOMAIN metrics /\ metrics[l] = NA

\* C9 (amended): with an empty projects table, whatever the other tables
\* hold, Active Projects shows 0, the three other KPIs of the Projects
\* section show "N/A", and none raises.
C9_EmptyProjectsKpis ==
    (pc \in AfterTab1 \cup {"raised"} /\ IsEmpty(dfs["project"])) =>
        /\ pc # "raised"
        /\ ProjectsKpis \subseteq DOMAIN metrics
        /\ metrics["Active Projects"] = Count(0)
        /\ \A l \in ProjectsKpis \ {"Active Projects"} : metrics[l] = NA

C9_Witness ==
    /\ pc = "done"
    /\ IsEmpty(dfs["project"])
    /\ \A T \in Secondary : ~IsEmpty(dfs[T])
    /\ "project_id" \notin dfs["assignment"].cols
    /\ metrics["Avg Team Size"] = NA

\* C10: every KPI and chart checks the columns and tables it reads, so
\* whatever columns the six tables have or lack, a run never raises.
C10_NeverRaises == pc # "raised"

\* ---- C11
RolesOf(mem) == [i \in 1..Len(mem.rows) |-> mem.rows[i].role]
WithAssociate == {Associate, associate, AssociateAnalyst}
WithAnalyst == {Analyst, AssociateAnalyst}

\* C11: for a non-empty members table with a role column, the Associates &
\* Analysts KPI is the number of rows whose role contains "associate" in any
\* case plus the number of rows whose role contains "analyst" in any case, a
\* missing role matching neither; for the roles Associate, associate,
\* Analyst, Partner it is 3.
C11_AssociatesAnalystsCount ==
    ("Associates & Analysts" \in DOMAIN metrics
        /\ ~IsEmpty(dfs["member"]) /\ "role" \in dfs["member"].cols)
    => LET r == RolesOf(dfs["member"])
       IN /\ metrics["Associates & Analysts"] =
                 Count(Cardinality({i \in DOMAIN r : r[i] \in WithAssociate})
                       + Cardinality({i \in DOMAIN r : r[i] \in WithAnalyst}))
          /\ r = <<Associate, associate, Analyst, Partner>>
                 => metrics["Associates & Analysts"] = Count(3)

C11_Witness ==
    /\ pc = "done"
    /\ RolesOf(dfs["member"]) = <<Associate, associate, Analyst, Partner>>
    /\ metrics["Associates & Analysts"] = Count(3)

\* ---- C12
AttendanceCellsOf(att) ==
    [i \in 1..Len(att.rows) |-> <<att.rows[i].gbm_id, att.rows[i].status>>]
AttendanceStated(att) ==
    ~IsEmpty(att) /\ "gbm_id" \in att.cols /\ "status" \in att.cols

\* m shows, to one decimal, the mean over the distinct gbm_id values of the
\* number of rows of that gbm_id with status true: the tenth nearest to
\* (rows with status true) / (distinct gbm_id values).
IsAvgAttendance(m, att) ==
    LET attended == Cardinality({i \in 1..Len(att.rows) : att.rows[i].status})
        gbms == Cardinality({att.rows[i].gbm_id : i \in 1..Len(att.rows)})
    IN /\ m.fmt = ".1f"
       /\ 2 * (m.val * gbms - 10 * attended) <= gbms
       /\ 2 * (10 * attended - m.val * gbms) <= gbms
       /\ AttendanceCellsOf(att) = <<<<1, TRUE>>, <<1, FALSE>>, <<2, TRUE>>>>
              => m.val = 10

\* C12 as stated: whenever the attendance table is non-empty and has gbm_id
\* and status columns the Avg Attendance/GBM KPI is that mean, whatever the
\* other tables are.
C12_AttendanceRowsOnly ==
    ("Avg Attendance/GBM" \in DOMAIN metrics /\ AttendanceStated(dfs["attendance"]))
    => IsAvgAttendance(metrics["Avg Attendance/GBM"], dfs["attendance"])

\* C12: when the attendance table is non-empty and has gbm_id and status
\* columns, the Avg Attendance/GBM KPI is the mean over the distinct gbm_id
\* values of the number of rows of that gbm_id with status true, shown to
\* one decimal (1.0 for the rows (1,True), (1,False), (2,True)), provided
\* the members table is not empty; with an empty members table it is "N/A".
C12_AvgAttendanceNeedsMembers ==
    ("Avg Attendance/GBM" \in DOMAIN metrics /\ AttendanceStated(dfs["attendance"]))
    => IF IsEmpty(dfs["member"])
       THEN metrics["Avg Attendance/GBM"] = NA
       ELSE IsAvgAttendance(metrics["Avg Attendance/GBM"], dfs["attendance"])

C12_Witness ==
    /\ pc = "done"
    /\ ~IsEmpty(dfs["member"])
    /\ AttendanceCellsOf(dfs["attendance"]) = <<<<1, TRUE>>, <<1, FALSE>>, <<2, TRUE>>>>
    /\ metrics["Avg Attendance/GBM"] = OneDecimal(10)

\* ---- C13
DonatedOf(fp) == [i \in 1..Len(fp.rows) |-> fp.rows[i].donated]
DonatedLabels == {"Donated Projects", "Donated %"}

\* C13: for a non-empty filtered projects table with a donated column, the
\* donated-percentage KPIs of the Projects tab and of the Companies tab are
\* equal, lie between 0.0% and 100.0% and are the one-decimal number nearest
\* to 100 * (rows with donated true) / (rows); for True, False, True: 66.7%.
C13_DonatedPercentage ==
    (~IsEmpty(filtered_projects) /\ "donated" \in filtered_projects.cols)
    => LET n == Len(filtered_projects.rows)
           k == Cardinality({i \in 1..n : filtered_projects.rows[i].donated})
       IN /\ \A l \in DonatedLabels \cap DOMAIN metrics :
                 /\ metrics[l].fmt = ".1f%"
                 /\ metrics[l].val \in 0..1000
                 /\ 2 * (metrics[l].val * n - 1000 * k) <= n
                 /\ 2 * (1000 * k - metrics[l].val * n) <= n
                 /\ DonatedOf(filtered_projects) = <<TRUE, FALSE, TRUE>>
                        => metrics[l].val = 667
          /\ DonatedLabels \subseteq DOMAIN metrics
                 => metrics["Donated Projects"] = metrics["Donated %"]

C13_Witness ==
    /\ pc = "done"
    /\ DonatedOf(filtered_projects) = <<TRUE, FALSE, TRUE>>
    /\ metrics["Donated Projects"] = Percent(667)
    /\ metrics["Donated %"] = Percent(667)

\* ---- C14
Rendering == {"filter", "tab1", "tab2", "tab3", "tab4"}

\* C14: the process is read-only.  Every request it has sent to the backend
\* is a select of all rows of one of the six tables, so no row is created,
\* updated or deleted; the filter and the aggregations of the tabs send
\* nothing and leave the loaded tables and the memoized snapshots as they
\* are; a table loaded in a run and a stored snapshot never change.
C14_ReadOnly ==
    [][/\ ops' \subseteq {SelectAll(T) : T \in Tables}
       /\ pc \in Rendering => (ops' = ops /\ dfs' = dfs /\ cache' = cache)
       /\ \A T \in DOMAIN cache : T \in DOMAIN cache' /\ cache'[T] = cache[T]
       /\ \A T \in DOMAIN dfs \cap DOMAIN dfs' : dfs'[T] = dfs[T]]_vars

C14_Witness ==
    /\ pc = "done"
    /\ ops = {SelectAll(T) : T \in Tables}
    /\ widget.set
    /\ ~IsEmpty(filtered_projects)
    /\ filtered_projects # dfs["project"]
    /\ dfs["project"] = cache["project"].df

\* ---- C15
\* C15: the empty table of a failed load is memoized like any result.  The
\* call whose fetch raises stores the empty table (and so would a secondary
\* loader that finds a credential missing); while a table's stored result is
\* the empty table, every call of its loader returns the empty table from the
\* cache and nothing goes to the backend for it, whatever the backend would
\* answer by then.  The halt of load_projects on a missing credential stores
\* nothing, and the next call of load_projects makes the credentials check
\* again: it halts again, or goes to the backend.
C15_FailureMemoized ==
    [][/\ \A T \in Tables :
            /\ T \in raisedNow' \ raisedNow =>
                   /\ T \in DOMAIN cache' /\ cache'[T].df = EmptyDF
                   /\ dfs'[T] = EmptyDF
            /\ (T \in Secondary /\ pc = LoaderPc(T) /\ T \notin DOMAIN cache
                    /\ CredsMissing) =>
                   /\ T \in DOMAIN cache' /\ cache'[T].df = EmptyDF
                   /\ dfs'[T] = EmptyDF
            /\ (T \in DOMAIN cache /\ cache[T].df = EmptyDF) =>
                   /\ T \in DOMAIN cache' /\ cache'[T] = cache[T]
                   /\ fetches'[T] = fetches[T]
                   /\ T \notin fetchedNow' \ fetchedNow
                   /\ pc = LoaderPc(T) => dfs'[T] = EmptyDF
       /\ (pc' = "stopped" /\ pc # "stopped") =>
              /\ pc = "load_projects"
              /\ cache' = cache /\ cache = <<>>
              /\ fetches' = fetches
       /\ (pc = "load_projects" /\ "project" \notin DOMAIN cache) =>
              IF CredsMissing THEN pc' = "stopped"
              ELSE "project" \in fetchedNow']_vars

\* A run that ends long after load_projects' fetch raised: the empty table,
\* with its error message, came from the cache and nothing was fetched.
C15_Witness ==
    /\ pc = "done"
    /\ fetchedNow = {}
    /\ "project" \notin raisedNow
    /\ cache["project"] = [df |-> EmptyDF, msgs |-> <<ProjectErrorMsg>>]
    /\ age["project"] >= MaxAge
    /\ dfs["project"] = EmptyDF
    /\ fetches["project"] = 1

====
